---- MODULE Spec2Model ----
(***************************************************************************)
(* A model of detect_secrets/settings.py: the process-wide Settings        *)
(* singleton, the three lru_cache(maxsize=1) memos (get_settings,          *)
(* get_plugins, get_filters), the baseline-configuration procedure, and    *)
(* the transient_settings context manager.                                 *)
(*                                                                         *)
(* Representation.                                                         *)
(*   - A Python str is a TLA+ string; a filter path is a tuple of tokens   *)
(*     (segments and the separators ".", "::", "file://", "http://") so    *)
(*     that urlparse / rsplit / split are computed, not looked up.         *)
(*   - A params dict is a function from key strings to values; Python      *)
(*     dict equality ignores key order, and so does function equality.     *)
(*   - Settings.plugins and Settings.filters are insertion-ordered dicts:  *)
(*     a sequence of <<key, params>> pairs with distinct keys.             *)
(*   - A fault is the name of the exception class; OK means no fault.      *)
(***************************************************************************)
EXTENDS Integers, Sequences, FiniteSets, TLC

VARIABLES
    settings_cached,   \* get_settings' lru_cache slot is filled
    plugins,           \* get_settings().plugins  (<<>> while the slot is empty)
    filters,           \* get_settings().filters  (<<>> while the slot is empty)
    plugins_cache,     \* get_plugins' lru_cache slot: NoCache or Cached(list)
    filters_cache,     \* get_filters' lru_cache slot: NoCache or Cached(list)
    stack,             \* the open transient_settings scopes, innermost last
    pc,                \* "run": caller code runs; "raised": a fault unwinds
    fault,             \* the fault unwinding out of the innermost block
    ret,               \* what the last operation returned or raised
    set_order,         \* this process's iteration order of a set of str
    held,              \* the instance the caller's last get_settings() returned:
                       \* "none", "cached" (it fills the slot) or "dropped"
    busted,            \* cache_bust() ran since the caller's last get_settings()
    other,             \* a second instance the caller made with Settings(), or <<>>
    alias,             \* which mappings of get_settings() are the very dict
                       \* objects of the second instance: [plugins, filters]
    joined             \* a set() call has joined get_settings() and the
                       \* second instance

vars == <<settings_cached, plugins, filters, plugins_cache, filters_cache,
          stack, pc, fault, ret, set_order, held, busted, other, alias, joined>>

----------------------------------------------------------------------------
(* Bounds of the model. *)

\* How many transient_settings scopes may be open at once.
MaxDepth == 1

\* How many entries a plugins_used / filters_used list may hold.
MaxLen == 2

\* How many transient_settings scopes may be open at once where the
\* nesting of scopes is examined.
MaxNest == 2

\* How many entries a list that is rearranged may hold.
MaxPermuted == 2

----------------------------------------------------------------------------
(* Faults and cache slots. *)

OK == "ok"
EmptyDict == <<>>

\* An lru_cache(maxsize=1) slot of a function without parameters: empty, or
\* holding the one memoized value.
NoCache == <<>>
Cached(v) == <<v>>

----------------------------------------------------------------------------
(* Insertion-ordered dicts. *)

Keys(d) == {d[i][1] : i \in DOMAIN d}

IndexOf(d, k) == CHOOSE i \in DOMAIN d : d[i][1] = k

Get(d, k) == d[IndexOf(d, k)][2]

\* d[k] = v : an existing key keeps its position, a new key goes last.
Put(d, k, v) ==
    IF k \in Keys(d)
    THEN [d EXCEPT ![IndexOf(d, k)] = <<k, v>>]
    ELSE Append(d, <<k, v>>)

\* d.pop(k, None)
Pop(d, k) ==
    IF k \in Keys(d)
    THEN LET i == IndexOf(d, k)
         IN  SubSeq(d, 1, i - 1) \o SubSeq(d, i + 1, Len(d))
    ELSE d

\* dict equality (==): same keys, same values, whatever the order.
DictEq(a, b) ==
    /\ Keys(a) = Keys(b)
    /\ \A k \in Keys(a) : Get(a, k) = Get(b, k)

\* {**lo, **hi}: hi's value wins on a shared key.
Merge(lo, hi) == hi @@ lo

\* a copy of params dict m without key k
Without(m, k) == [x \in (DOMAIN m) \ {k} |-> m[x]]

----------------------------------------------------------------------------
(* Filter identifiers.  A path is a tuple of tokens; the last "." token is *)
(* the last "." of the string (no segment after it holds a dot).           *)

is_invalid_file == <<"detect_secrets.filters.common", ".", "is_invalid_file">>
is_non_text_file == <<"detect_secrets.filters.heuristic", ".", "is_non_text_file">>
is_line_allowlisted == <<"detect_secrets.filters.allowlist", ".", "is_line_allowlisted">>
is_sequential_string == <<"detect_secrets.filters.heuristic", ".", "is_sequential_string">>
is_potential_uuid == <<"detect_secrets.filters.heuristic", ".", "is_potential_uuid">>
is_likely_id_string == <<"detect_secrets.filters.heuristic", ".", "is_likely_id_string">>
is_templated_secret == <<"detect_secrets.filters.heuristic", ".", "is_templated_secret">>
is_prefixed_with_dollar_sign == <<"detect_secrets.filters.heuristic", ".", "is_prefixed_with_dollar_sign">>
is_indirect_reference == <<"detect_secrets.filters.heuristic", ".", "is_indirect_reference">>
is_lock_file == <<"detect_secrets.filters.heuristic", ".", "is_lock_file">>
is_swagger_file == <<"detect_secrets.filters.heuristic", ".", "is_swagger_file">>
wordlist_filter == <<"detect_secrets.filters.wordlist", ".", "should_exclude_secret">>
gibberish_filter == <<"detect_secrets.filters.gibberish", ".", "should_exclude_secret">>
is_baseline_file == <<"detect_secrets.filters.common", ".", "is_baseline_file">>

\* Settings.DEFAULT_FILTERS, in the order the literal lists them.
DEFAULT_FILTERS_LIST == <<is_invalid_file, is_non_text_file>>

DEFAULT_FILTERS == {DEFAULT_FILTERS_LIST[i] : i \in DOMAIN DEFAULT_FILTERS_LIST}

\* The set literal of Settings.clear, in the order the literal lists it.
CLEAR_FILTERS_LIST ==
    DEFAULT_FILTERS_LIST \o
    << is_line_allowlisted, is_sequential_string, is_potential_uuid,
       is_likely_id_string, is_templated_secret, is_prefixed_with_dollar_sign,
       is_indirect_reference, is_lock_file, is_swagger_file >>

Reverse(s) == [i \in 1..Len(s) |-> s[Len(s) + 1 - i]]

\* Iterating a set of str: the order depends on the process's hash seed, and
\* is the same every time the same set is built in one process.
SetIter(order, list) == IF order = "fwd" THEN list ELSE Reverse(list)

\* {path: {} for path in <set>}
EmptyParamsDict(order, list) ==
    LET it == SetIter(order, list)
    IN  [i \in 1..Len(it) |-> <<it[i], EmptyDict>>]

----------------------------------------------------------------------------
(* Settings: an instance is [plugins |-> dict, filters |-> dict,           *)
(* plugins_shared, filters_shared]; a mapping is shared when another       *)
(* instance refers to the same dict object (after set), so that a change   *)
(* made in place shows in both; an assignment to self.plugins or           *)
(* self.filters binds a new dict object, which no other instance shares.   *)
(* Each method returns [self, err, bust_plugins, bust_filters]: the        *)
(* instance after the call, the fault it raised, and whether it reached    *)
(* its get_plugins.cache_clear() / get_filters.cache_clear().              *)

Result(self, err, bp, bf) ==
    [self |-> self, err |-> err, bust_plugins |-> bp, bust_filters |-> bf]

\* clear() as "filters is exactly the default filters".
ClearToDefaultsOnly(order) ==
    [plugins |-> <<>>, filters |-> EmptyParamsDict(order, DEFAULT_FILTERS_LIST),
     plugins_shared |-> FALSE, filters_shared |-> FALSE]

Settings_clear(order) ==
    [plugins |-> <<>>, filters |-> EmptyParamsDict(order, CLEAR_FILTERS_LIST),
     plugins_shared |-> FALSE, filters_shared |-> FALSE]

\* The for loop of configure_plugins: plugin.pop('name') raises KeyError at
\* the first entry without a name; the entries before it are already stored.
RECURSIVE PluginsLoop(_, _)
PluginsLoop(d, config) ==
    IF config = <<>> THEN [d |-> d, err |-> OK]
    ELSE LET plugin == Head(config)
         IN  IF "name" \notin DOMAIN plugin
             THEN [d |-> d, err |-> "KeyError"]
             ELSE PluginsLoop(Put(d, plugin["name"], Without(plugin, "name")),
                              Tail(config))

\* configure_plugins that replaces the mapping, as configure_filters does.
ConfigurePluginsReplacing(self, config) ==
    LET r == PluginsLoop(<<>>, config)
    IN  Result([self EXCEPT !.plugins = r.d], r.err, r.err = OK, FALSE)

Settings_configure_plugins(self, config) ==
    LET r == PluginsLoop(self.plugins, config)
    IN  Result([self EXCEPT !.plugins = r.d], r.err, r.err = OK, FALSE)

\* set(other): both attributes are bound to other's dict objects.
Settings_set(self, giver) ==
    Result([self EXCEPT !.plugins = giver.plugins, !.filters = giver.filters,
                        !.plugins_shared = TRUE, !.filters_shared = TRUE],
           OK, FALSE, FALSE)

RECURSIVE PopAll(_, _)
PopAll(d, names) ==
    IF names = <<>> THEN d ELSE PopAll(Pop(d, Head(names)), Tail(names))

\* disable_plugins without its try / except: self.plugins.pop(name) raises
\* KeyError at the first name the mapping does not hold.
DisablePluginsStrict(self, plugin_names) ==
    LET absent == {i \in DOMAIN plugin_names :
                     plugin_names[i] \notin
                        Keys(PopAll(self.plugins, SubSeq(plugin_names, 1, i - 1)))}
        first == CHOOSE i \in absent : \A j \in absent : i <= j
    IN  IF absent = {}
        THEN Result([self EXCEPT !.plugins = PopAll(self.plugins, plugin_names)],
                    OK, TRUE, FALSE)
        ELSE Result([self EXCEPT !.plugins =
                        PopAll(self.plugins, SubSeq(plugin_names, 1, first - 1))],
                    "KeyError", FALSE, FALSE)

Settings_disable_plugins(self, plugin_names) ==
    Result([self EXCEPT !.plugins = PopAll(self.plugins, plugin_names)],
           OK, TRUE, FALSE)

\* The for loop of configure_filters: filter_config['path'] raises KeyError at
\* the first entry without a path; self.filters was already rebound.
RECURSIVE FiltersLoop(_, _)
FiltersLoop(d, filter_configs) ==
    IF filter_configs = <<>> THEN [d |-> d, err |-> OK]
    ELSE LET filter_config == Head(filter_configs)
         IN  IF "path" \notin DOMAIN filter_config
             THEN [d |-> d, err |-> "KeyError"]
             ELSE FiltersLoop(Put(d, filter_config["path"], filter_config),
                              Tail(filter_configs))

\* configure_filters that starts from an empty mapping, not from the default
\* filters.
ConfigureFiltersWithoutDefaults(order, self, config) ==
    LET r == FiltersLoop(<<>>, config)
    IN  Result([self EXCEPT !.filters = r.d, !.filters_shared = FALSE],
               r.err, FALSE, r.err = OK)

\* configure_filters that merges into the mapping, as configure_plugins does.
ConfigureFiltersMerging(order, self, config) ==
    LET r == FiltersLoop(self.filters, config)
    IN  Result([self EXCEPT !.filters = r.d], r.err, FALSE, r.err = OK)

\* configure_filters that empties and refills the dict object it has, in
\* place of binding a new one.
ConfigureFiltersInPlace(order, self, config) ==
    LET r == FiltersLoop(EmptyParamsDict(order, DEFAULT_FILTERS_LIST), config)
    IN  Result([self EXCEPT !.filters = r.d], r.err, FALSE, r.err = OK)

Settings_configure_filters(order, self, config) ==
    LET r == FiltersLoop(EmptyParamsDict(order, DEFAULT_FILTERS_LIST), config)
    IN  Result([self EXCEPT !.filters = r.d, !.filters_shared = FALSE],
               r.err, FALSE, r.err = OK)

Settings_disable_filters(self, filter_paths) ==
    Result([self EXCEPT !.filters = PopAll(self.filters, filter_paths)],
           OK, FALSE, TRUE)

----------------------------------------------------------------------------
(* Sorting.  sorted(xs, key=lambda x: str(x[k].lower())) is a stable sort  *)
(* by the lower-cased key under Python's str order.                        *)

\* str.lower() on a token: the tokens of the model that hold upper case.
LowerTable ==
    [AWSKeyDetector |-> "awskeydetector",
     Base64HighEntropyString |-> "base64highentropystring",
     NoSuchPlugin |-> "nosuchplugin"]
    @@ ("detect_secrets.filters.REGEX" :> "detect_secrets.filters.regex")

LowerTok(t) == IF t \in DOMAIN LowerTable THEN LowerTable[t] ELSE t

\* str.lower() on a filter path, token by token.
LowerPath(path) == [i \in DOMAIN path |-> LowerTok(path[i])]

\* Python's order of str (by code point) on the lower-cased plugin names.
NameCollation ==
    << "awskeydetector", "base64highentropystring", "nosuchplugin" >>

\* Python's order of str (by code point) on the lower-cased filter paths.
PathCollation ==
    << is_line_allowlisted,
       is_baseline_file,
       is_invalid_file,
       <<"detect_secrets.filters.common", ".", "no_such_function">>,
       gibberish_filter,
       is_indirect_reference,
       is_likely_id_string,
       is_lock_file,
       is_non_text_file,
       is_potential_uuid,
       is_prefixed_with_dollar_sign,
       is_sequential_string,
       is_swagger_file,
       is_templated_secret,
       <<"detect_secrets.filters.regex", ".", "should_exclude_files">>,
       wordlist_filter,
       <<"file://", "missing.py", "::", "fn">>,
       <<"file://", "testing/custom_filters.py">>,
       <<"file://", "testing/custom_filters.py", "::", "is_invalid_secret">>,
       <<"http://", "example.com/filter">>,
       <<"nodots">>,
       <<"nonexistent.module", ".", "fn">> >>

\* The rank of str(x[k].lower()), k being 'name' or 'path'.
StrRank(k, v) ==
    IF k = "name"
    THEN CHOOSE i \in DOMAIN NameCollation : NameCollation[i] = LowerTok(v)
    ELSE CHOOSE i \in DOMAIN PathCollation : PathCollation[i] = LowerPath(v)

\* a <= b for the sort keys of two entries
KeyLeq(k, a, b) == StrRank(k, a) <= StrRank(k, b)

\* Insert x (with key field k) after every element whose key is <= its own.
RECURSIVE InsertSorted(_, _, _)
InsertSorted(sorted, x, k) ==
    IF sorted = <<>> THEN <<x>>
    ELSE IF KeyLeq(k, Head(sorted)[k], x[k])
         THEN <<Head(sorted)>> \o InsertSorted(Tail(sorted), x, k)
         ELSE <<x>> \o sorted

\* The list as it is, in place of sorted(...).
Unsorted(xs, k) == xs

\* sorted(xs, key=lambda x: str(x[k].lower())): stable.
RECURSIVE Sorted(_, _)
Sorted(xs, k) ==
    IF xs = <<>> THEN <<>>
    ELSE InsertSorted(Sorted(SubSeq(xs, 1, Len(xs) - 1), k), xs[Len(xs)], k)

----------------------------------------------------------------------------
(* The plugin subsystem (core/plugins/initialize.py, not part of this      *)
(* file): a registry of plugin classes and their computed defaults.  A     *)
(* resolved plugin is represented by its live serialization plugin.json(). *)

PluginRegistry ==
    [AWSKeyDetector |-> EmptyDict,
     Base64HighEntropyString |-> [limit |-> "4.5"]]

\* plugin.json(): the name, and every computed field (the configured value
\* when the stored params give one, the plugin's default otherwise).
PluginJson(classname, params) ==
    LET defaults == PluginRegistry[classname]
    IN  [k \in {"name"} \cup DOMAIN defaults |->
            IF k = "name" THEN classname
            ELSE IF k \in DOMAIN params THEN params[k] ELSE defaults[k]]

\* plugins.initialize.from_plugin_classname(classname): raises TypeError for
\* a name that is no plugin class.
from_plugin_classname(classname, settings_plugins) ==
    IF classname \in DOMAIN PluginRegistry
    THEN [err |-> OK, plugin |-> PluginJson(classname, Get(settings_plugins, classname))]
    ELSE [err |-> "TypeError", plugin |-> EmptyDict]

----------------------------------------------------------------------------
(* The process-wide state: the three lru_cache slots and the singleton.    *)
(* A world is [sc, p, f, pc, fc, order, held, ps, fs, calls]: the slots,   *)
(* the singleton's mappings and whether each is shared with the second     *)
(* instance, what became of the instance the caller holds, and the         *)
(* classnames the plugin factory was called with during the operation.     *)
(* An operation on a world returns [w, val, err].                          *)

World ==
    [sc |-> settings_cached, p |-> plugins, f |-> filters,
     pc |-> plugins_cache, fc |-> filters_cache, order |-> set_order,
     held |-> held, ps |-> alias.plugins, fs |-> alias.filters, calls |-> <<>>]

Out(w, val, err) == [w |-> w, val |-> val, err |-> err]

\* The instance the caller holds, once the slot holds another or none.
Displaced(h) == IF h = "cached" THEN "dropped" ELSE h

\* get_settings() without its lru_cache: a new Settings() at every call.
GetSettingsUncached(w) ==
    LET fresh == Settings_clear(w.order)
    IN  [w EXCEPT !.sc = TRUE, !.p = fresh.plugins, !.f = fresh.filters,
                  !.ps = fresh.plugins_shared, !.fs = fresh.filters_shared,
                  !.held = Displaced(@)]

\* get_settings(): the cached instance, or a new Settings() that is cached.
get_settings(w) ==
    IF w.sc THEN w
    ELSE LET fresh == Settings_clear(w.order)
         IN  [w EXCEPT !.sc = TRUE, !.p = fresh.plugins, !.f = fresh.filters,
                       !.ps = fresh.plugins_shared, !.fs = fresh.filters_shared,
                       !.held = Displaced(@)]

Self(w) ==
    [plugins |-> w.p, filters |-> w.f,
     plugins_shared |-> w.ps, filters_shared |-> w.fs]

\* cache_bust() that clears the slot of get_settings only.
CacheBustSettingsOnly(w) ==
    [w EXCEPT !.sc = FALSE, !.p = <<>>, !.f = <<>>,
              !.ps = FALSE, !.fs = FALSE, !.held = Displaced(@)]

\* cache_bust() that clears the two resolver memos only.
CacheBustResolversOnly(w) ==
    [w EXCEPT !.pc = NoCache, !.fc = NoCache]

\* cache_bust(): the three cache_clear() calls.  The dropped instance's
\* mappings are no longer reachable through get_settings().
cache_bust(w) ==
    [w EXCEPT !.sc = FALSE, !.p = <<>>, !.f = <<>>,
              !.ps = FALSE, !.fs = FALSE, !.held = Displaced(@),
              !.pc = NoCache, !.fc = NoCache]

\* The effect on the world of a Settings method called on get_settings().
Apply(w, r) ==
    [w EXCEPT !.p = r.self.plugins, !.f = r.self.filters,
              !.ps = r.self.plugins_shared, !.fs = r.self.filters_shared,
              !.pc = IF r.bust_plugins THEN NoCache ELSE @,
              !.fc = IF r.bust_filters THEN NoCache ELSE @]

\* The list comprehension of get_plugins: the factory is called for every
\* name of the mapping, in order; its first fault ends the comprehension.
\* calls lists the classnames the factory was called with.
RECURSIVE ResolvePlugins(_, _)
ResolvePlugins(names, settings_plugins) ==
    IF names = <<>> THEN [err |-> OK, list |-> <<>>, calls |-> <<>>]
    ELSE LET classname == Head(names)[1]
             one == from_plugin_classname(classname, settings_plugins)
         IN  IF one.err # OK
             THEN [err |-> one.err, list |-> <<>>, calls |-> <<classname>>]
             ELSE LET rest == ResolvePlugins(Tail(names), settings_plugins)
                  IN  [err |-> rest.err,
                       list |-> IF rest.err = OK
                                THEN <<one.plugin>> \o rest.list ELSE <<>>,
                       calls |-> <<classname>> \o rest.calls]

\* get_plugins(): lru_cache(maxsize=1); a call that raises caches nothing.
get_plugins(w) ==
    IF w.pc # NoCache THEN Out(w, w.pc[1], OK)
    ELSE LET w1 == get_settings(w)
             r == ResolvePlugins(w1.p, w1.p)
             w2 == [w1 EXCEPT !.calls = @ \o r.calls]
         IN  IF r.err # OK THEN Out(w2, <<>>, r.err)
             ELSE Out([w2 EXCEPT !.pc = Cached(r.list)], r.list, OK)

\* The for loop of Settings.json with the two ** of its dict display
\* swapped: the stored params override the live serialization.
RECURSIVE PluginsUsedStoredWins(_, _)
PluginsUsedStoredWins(resolved, self_plugins) ==
    IF resolved = <<>> THEN [err |-> OK, list |-> <<>>]
    ELSE LET serialized_plugin == Head(resolved)
         IN  IF serialized_plugin["name"] \notin Keys(self_plugins)
             THEN [err |-> "KeyError", list |-> <<>>]
             ELSE LET rest == PluginsUsedStoredWins(Tail(resolved), self_plugins)
                      entry == Merge(Merge([name |-> serialized_plugin["name"]],
                                           serialized_plugin),
                                     Get(self_plugins, serialized_plugin["name"]))
                  IN  [err |-> rest.err,
                       list |-> IF rest.err = OK THEN <<entry>> \o rest.list ELSE <<>>]

\* The for loop of Settings.json: self.plugins[serialized_plugin['name']]
\* raises KeyError for a resolved plugin the mapping does not hold.
RECURSIVE PluginsUsed(_, _)
PluginsUsed(resolved, self_plugins) ==
    IF resolved = <<>> THEN [err |-> OK, list |-> <<>>]
    ELSE LET serialized_plugin == Head(resolved)
         IN  IF serialized_plugin["name"] \notin Keys(self_plugins)
             THEN [err |-> "KeyError", list |-> <<>>]
             ELSE LET rest == PluginsUsed(Tail(resolved), self_plugins)
                      entry == Merge(Merge([name |-> serialized_plugin["name"]],
                                           Get(self_plugins, serialized_plugin["name"])),
                                     serialized_plugin)
                  IN  [err |-> rest.err,
                       list |-> IF rest.err = OK THEN <<entry>> \o rest.list ELSE <<>>]

\* The list comprehension without its "if path not in self.DEFAULT_FILTERS".
RECURSIVE FiltersUsedWithDefaults(_)
FiltersUsedWithDefaults(self_filters) ==
    IF self_filters = <<>> THEN <<>>
    ELSE <<Merge([path |-> Head(self_filters)[1]], Head(self_filters)[2])>>
         \o FiltersUsedWithDefaults(Tail(self_filters))

\* The list comprehension of Settings.json over self.filters.items().
RECURSIVE FiltersUsed(_)
FiltersUsed(self_filters) ==
    IF self_filters = <<>> THEN <<>>
    ELSE LET path == Head(self_filters)[1]
             config == Head(self_filters)[2]
             rest == FiltersUsed(Tail(self_filters))
         IN  IF path \notin DEFAULT_FILTERS
             THEN <<Merge([path |-> path], config)>> \o rest
             ELSE rest

\* Settings.json(self), self being an instance and w the world it runs in.
Settings_json(self, w) ==
    LET g == get_plugins(w)
    IN  IF g.err # OK THEN Out(g.w, EmptyDict, g.err)
        ELSE LET pu == PluginsUsed(g.val, self.plugins)
             IN  IF pu.err # OK THEN Out(g.w, EmptyDict, pu.err)
                 ELSE Out(g.w,
                          [plugins_used |-> Sorted(pu.list, "name"),
                           filters_used |-> Sorted(FiltersUsed(self.filters), "path")],
                          OK)

\* get_settings().json()
json(w) == LET w1 == get_settings(w) IN Settings_json(Self(w1), w1)

----------------------------------------------------------------------------
(* The filter loader. *)

\* urlparse(path).scheme
urlparse_scheme(path) ==
    IF path # <<>> /\ path[1] = "file://" THEN "file"
    ELSE IF path # <<>> /\ path[1] = "http://" THEN "http"
    ELSE ""

\* The positions of separator token sep in path.
SepPositions(path, sep) == {i \in DOMAIN path : path[i] = sep}

Max(S) == CHOOSE m \in S : \A x \in S : x <= m

\* path.rsplit('.', 1): one part without a ".", else the two parts around
\* the last one.
rsplit_dot(path) ==
    LET dots == SepPositions(path, ".")
    IN  IF dots = {} THEN <<path>>
        ELSE <<SubSeq(path, 1, Max(dots) - 1), SubSeq(path, Max(dots) + 1, Len(path))>>

Min(S) == CHOOSE m \in S : \A x \in S : m <= x

\* path[len('file://'):].split('::'): one part more than there are "::".
RECURSIVE split_colons(_)
split_colons(rest) ==
    LET seps == SepPositions(rest, "::")
    IN  IF seps = {} THEN <<rest>>
        ELSE <<SubSeq(rest, 1, Min(seps) - 1)>> \o
             split_colons(SubSeq(rest, Min(seps) + 1, Len(rest)))

\* What import_module(module_path) finds, with each module's attributes.
ImportableModules ==
    [m \in {"detect_secrets.filters.common", "detect_secrets.filters.heuristic",
            "detect_secrets.filters.allowlist", "detect_secrets.filters.wordlist",
            "detect_secrets.filters.gibberish", "detect_secrets.filters.regex"} |->
        CASE m = "detect_secrets.filters.common" -> {"is_invalid_file", "is_baseline_file"}
          [] m = "detect_secrets.filters.heuristic" ->
                {"is_non_text_file", "is_sequential_string", "is_potential_uuid",
                 "is_likely_id_string", "is_templated_secret",
                 "is_prefixed_with_dollar_sign", "is_indirect_reference",
                 "is_lock_file", "is_swagger_file"}
          [] m = "detect_secrets.filters.allowlist" -> {"is_line_allowlisted"}
          [] m = "detect_secrets.filters.regex" -> {"should_exclude_files"}
          [] OTHER -> {"should_exclude_secret"}]

\* What import_file_as_module(file_path) finds, with each file's attributes.
ImportableFiles ==
    [f \in {"testing/custom_filters.py"} |-> {"is_invalid_secret"}]

\* getattr(import_module(module_path), function_name) succeeds.
ModuleHas(module_path, function_name) ==
    /\ Len(module_path) = 1 /\ module_path[1] \in DOMAIN ImportableModules
    /\ Len(function_name) = 1
    /\ function_name[1] \in ImportableModules[module_path[1]]

\* getattr(import_file_as_module(file_path), function_name) succeeds.
FileHas(file_path, function_name) ==
    /\ Len(file_path) = 1 /\ file_path[1] \in DOMAIN ImportableFiles
    /\ Len(function_name) = 1
    /\ function_name[1] \in ImportableFiles[file_path[1]]

\* One turn of the for loop of get_filters on one identifier:
\* "ok" (appended), "warn" (logged and skipped) or "ValueError": raised by an
\* unpacking, which is outside the try, or by import_module('').
ResolveFilter(path) ==
    LET scheme == urlparse_scheme(path)
    IN  IF scheme = ""
        THEN LET parts == rsplit_dot(path)
             IN  IF Len(parts) # 2 THEN "ValueError"
                 ELSE IF parts[1] = <<>> THEN "ValueError"
                 ELSE IF ModuleHas(parts[1], parts[2]) THEN "ok" ELSE "warn"
        ELSE IF scheme = "file"
        THEN LET parts == split_colons(Tail(path))
             IN  IF Len(parts) # 2 THEN "ValueError"
                 ELSE IF FileHas(parts[1], parts[2]) THEN "ok" ELSE "warn"
        ELSE "warn"

\* The for loop of get_filters: [err, output, warned].
RECURSIVE FiltersLoad(_)
FiltersLoad(items) ==
    IF items = <<>> THEN [err |-> OK, output |-> <<>>, warned |-> <<>>]
    ELSE LET path == Head(items)[1]
             one == ResolveFilter(path)
         IN  IF one = "ValueError"
             THEN [err |-> "ValueError", output |-> <<>>, warned |-> <<>>]
             ELSE LET rest == FiltersLoad(Tail(items))
                  IN  IF rest.err # OK THEN rest
                      ELSE IF one = "ok"
                      THEN [rest EXCEPT !.output = <<path>> \o @]
                      ELSE [rest EXCEPT !.warned = <<path>> \o @]

\* get_filters(): lru_cache(maxsize=1); a call that raises caches nothing.
\* The value is the list of resolved callables, each named by function.path.
get_filters(w) ==
    IF w.fc # NoCache THEN Out(w, [output |-> w.fc[1], warned |-> <<>>], OK)
    ELSE LET w1 == get_settings(w)
             r == FiltersLoad(w1.f)
         IN  IF r.err # OK THEN Out(w1, [output |-> <<>>, warned |-> <<>>], r.err)
             ELSE Out([w1 EXCEPT !.fc = Cached(r.output)],
                      [output |-> r.output, warned |-> r.warned], OK)

----------------------------------------------------------------------------
(* The baseline-configuration procedure. *)

\* The two initialize() calls: config[...] raises KeyError for a missing key.
InitializeErr(settings_filters) ==
    IF /\ wordlist_filter \in Keys(settings_filters)
       /\ ~ ({"file_name", "min_length", "file_hash"}
                \subseteq DOMAIN Get(settings_filters, wordlist_filter))
    THEN "KeyError"
    ELSE IF /\ gibberish_filter \in Keys(settings_filters)
            /\ "limit" \notin DOMAIN Get(settings_filters, gibberish_filter)
    THEN "KeyError"
    ELSE OK

\* The procedure with its "if filename:" block moved before the plugins and
\* filters are configured.
ConfigureFromBaselineFilenameFirst(w, baseline, filename) ==
    LET w0 == get_settings(w)
        w1 == IF filename # ""
              THEN [w0 EXCEPT !.f = Put(@, is_baseline_file, [filename |-> filename])]
              ELSE w0
        rp == IF "plugins_used" \in DOMAIN baseline
              THEN Settings_configure_plugins(Self(w1), baseline["plugins_used"])
              ELSE Result(Self(w1), OK, FALSE, FALSE)
        w2 == Apply(w1, rp)
        rf == IF "filters_used" \in DOMAIN baseline
              THEN Settings_configure_filters(w2.order, Self(w2), baseline["filters_used"])
              ELSE Result(Self(w2), OK, FALSE, FALSE)
        w3 == Apply(w2, rf)
        ie == IF "filters_used" \in DOMAIN baseline THEN InitializeErr(w3.f) ELSE OK
    IN  IF rp.err # OK THEN Out(w2, EmptyDict, rp.err)
        ELSE IF rf.err # OK THEN Out(w3, EmptyDict, rf.err)
        ELSE IF ie # OK THEN Out(w3, EmptyDict, ie)
        ELSE Out(w3, Self(w3), OK)

\* configure_settings_from_baseline(baseline, filename)
configure_settings_from_baseline(w, baseline, filename) ==
    LET w1 == get_settings(w)
        rp == IF "plugins_used" \in DOMAIN baseline
              THEN Settings_configure_plugins(Self(w1), baseline["plugins_used"])
              ELSE Result(Self(w1), OK, FALSE, FALSE)
        w2 == Apply(w1, rp)
        rf == IF "filters_used" \in DOMAIN baseline
              THEN Settings_configure_filters(w2.order, Self(w2), baseline["filters_used"])
              ELSE Result(Self(w2), OK, FALSE, FALSE)
        w3 == Apply(w2, rf)
        ie == IF "filters_used" \in DOMAIN baseline THEN InitializeErr(w3.f) ELSE OK
        w4 == IF filename # ""
              THEN [w3 EXCEPT !.f = Put(@, is_baseline_file, [filename |-> filename])]
              ELSE w3
    IN  IF rp.err # OK THEN Out(w2, EmptyDict, rp.err)
        ELSE IF rf.err # OK THEN Out(w3, EmptyDict, rf.err)
        ELSE IF ie # OK THEN Out(w3, EmptyDict, ie)
        ELSE Out(w4, Self(w4), OK)

----------------------------------------------------------------------------
(* The operations, as the caller's code runs them on the singleton.  ret   *)
(* records the last call: its name, argument, fault and value.             *)

Ret(op, arg, r) ==
    [op |-> op, arg |-> arg, err |-> r.err, val |-> r.val]

\* A mapping the singleton shares with the second instance is one dict
\* object: what the operation did to it in place shows in the second
\* instance too.
SetWorld(w) ==
    /\ settings_cached' = w.sc
    /\ plugins' = w.p
    /\ filters' = w.f
    /\ plugins_cache' = w.pc
    /\ filters_cache' = w.fc
    /\ held' = w.held
    /\ alias' = [plugins |-> w.ps, filters |-> w.fs]
    /\ other' = IF other = <<>> THEN other
                ELSE [plugins |-> IF w.ps THEN w.p ELSE other.plugins,
                      filters |-> IF w.fs THEN w.f ELSE other.filters]

\* cache_bust() ran since the caller's last get_settings(): set by the
\* operations that call cache_bust(), once the caller holds an instance.
Busted(ran) == IF ran /\ held # "none" THEN TRUE ELSE busted

\* After cache_bust() get_settings() is another instance than the one a
\* set() call joined with the second instance.
Joined(ran) == IF ran THEN FALSE ELSE joined

\* A call that is not part of the scope controller.
Call(op, arg, r) ==
    /\ pc = "run"
    /\ SetWorld(r.w)
    /\ ret' = Ret(op, arg, r)
    /\ busted' = Busted(op = "cache_bust")
    /\ joined' = Joined(op = "cache_bust")
    /\ UNCHANGED <<stack, pc, fault, set_order>>

\* A Settings method on get_settings(); ret.val holds the instance's
\* mappings as they were when the call began.
Method(op, arg, r) ==
    Call(op, arg, Out(Apply(get_settings(World), r), Self(get_settings(World)), r.err))

\* get_settings().clear()
Clear ==
    Method("clear", <<>>,
           Result(Settings_clear(set_order), OK, FALSE, FALSE))

ConfigurePlugins(configs) ==
    \E config \in configs :
        Method("configure_plugins", config,
               Settings_configure_plugins(Self(get_settings(World)), config))

DisablePlugins(namelists) ==
    \E names \in namelists :
        Method("disable_plugins", names,
               Settings_disable_plugins(Self(get_settings(World)), names))

ConfigureFilters(configs) ==
    \E config \in configs :
        Method("configure_filters", config,
               Settings_configure_filters(set_order, Self(get_settings(World)), config))

DisableFilters(pathlists) ==
    \E paths \in pathlists :
        Method("disable_filters", paths,
               Settings_disable_filters(Self(get_settings(World)), paths))

\* ret.arg holds the two arguments and the singleton's mappings as they
\* were when the call began.
Baseline(baselines, filenames) ==
    \E baseline \in baselines, filename \in filenames :
        Call("configure_settings_from_baseline",
             [baseline |-> baseline, filename |-> filename,
              before |-> Self(get_settings(World))],
             configure_settings_from_baseline(World, baseline, filename))

CacheBust == Call("cache_bust", <<>>, Out(cache_bust(World), "None", OK))

\* s = get_settings(): the caller keeps the instance.  ret.val tells
\* whether it is the instance the caller held before the call, and whether
\* the call created it; ret.arg, what the caller held, whether cache_bust()
\* ran since, and the call made just before this one.
GetSettings ==
    LET w == get_settings(World)
    IN  /\ pc = "run"
        /\ SetWorld([w EXCEPT !.held = "cached"])
        /\ ret' = [op |-> "get_settings",
                   arg |-> [held |-> held, busted |-> busted, last |-> ret.op],
                   err |-> OK,
                   val |-> [same |-> w.held = "cached", created |-> ~ World.sc]]
        /\ busted' = FALSE
        /\ UNCHANGED <<stack, pc, fault, set_order, joined>>

GetPlugins == Call("get_plugins", <<>>, get_plugins(World))

GetFilters == Call("get_filters", <<>>, get_filters(World))

Json == Call("json", <<>>, json(World))

\* The lists of a baseline dict, each rearranged by a permutation of its
\* indices.
Rearranged(baseline, pp, pf) ==
    [k \in DOMAIN baseline |->
        IF k = "plugins_used"
        THEN [i \in DOMAIN baseline[k] |-> baseline[k][pp[i]]]
        ELSE [i \in DOMAIN baseline[k] |-> baseline[k][pf[i]]]]

\* configure_settings_from_baseline(baseline) and then get_settings().json(),
\* whether or not the procedure raised.
ApplyThenJson(w, baseline) ==
    LET applied == configure_settings_from_baseline(w, baseline, "")
        j == json(applied.w)
    IN  Out(j.w, [applied |-> applied.err, json |-> j.err, output |-> j.val], OK)

IndexPermutations(n) == {f \in [1..n -> 1..n] : \A i, j \in 1..n : f[i] = f[j] => i = j}

\* The baseline procedure and json(), and what the same two calls give
\* from the same state on the baseline with its lists rearranged; the
\* caller's script ends with the comparison.
PermutedTrip(baselines) ==
    \E baseline \in baselines :
        \E pp \in IndexPermutations(IF "plugins_used" \in DOMAIN baseline
                                THEN Len(baseline["plugins_used"]) ELSE 0),
           pf \in IndexPermutations(IF "filters_used" \in DOMAIN baseline
                                THEN Len(baseline["filters_used"]) ELSE 0) :
            LET permuted == Rearranged(baseline, pp, pf)
                first == ApplyThenJson(World, baseline)
                second == ApplyThenJson(World, permuted)
            IN  /\ pc = "run"
                /\ SetWorld(first.w)
                /\ pc' = "done"
                /\ ret' = [op |-> "permuted_trip", arg |-> baseline, err |-> OK,
                           val |-> [permuted |-> permuted, first |-> first.val,
                                    second |-> second.val]]
                /\ UNCHANGED <<stack, fault, set_order, busted, joined>>

\* In a process that has no settings yet: configure_settings_from_baseline
\* (baseline) and then get_settings().json().
RoundTrip(baselines) ==
    \E baseline \in baselines :
        LET applied == configure_settings_from_baseline(World, baseline, "")
        IN  /\ ~ settings_cached
            /\ Call("round_trip", baseline,
                    IF applied.err # OK THEN applied ELSE json(applied.w))

\* get_settings().clear() and then get_settings().json(); ret.arg holds the
\* mappings as they were before clear().
ClearThenJson ==
    Call("clear_json", Self(get_settings(World)),
         json(Apply(get_settings(World),
                    Result(Settings_clear(set_order), OK, FALSE, FALSE))))

\* get_plugins(), get_settings().json() and get_plugins() again, with nothing
\* in between.  ret.arg tells whether get_plugins' slot was filled when the
\* first call began; ret.val holds what the two get_plugins() returned, the
\* fault of json() and the classnames the factory was called with, in the
\* order of the calls.  ret.err is the fault of the first get_plugins() that
\* raised.
ResolveRepeatedly ==
    LET first == get_plugins(World)
        serialized == json(first.w)
        second == get_plugins(serialized.w)
    IN  Call("resolve_repeatedly",
             [memo |-> plugins_cache # NoCache],
             Out(second.w,
                 [first |-> first.val, json |-> serialized.err,
                  second |-> second.val, calls |-> second.w.calls],
                 IF first.err # OK THEN first.err ELSE second.err))

\* cache_bust(), then s = get_settings(), then get_plugins().  ret.arg holds
\* the singleton's mappings as they were before cache_bust() and whether
\* get_plugins' slot was filled; ret.val, the mappings of s and the list
\* get_plugins() returned.
BustThenGet ==
    LET w == get_settings(cache_bust(World))
        resolved == get_plugins([w EXCEPT !.held = "cached"])
    IN  /\ pc = "run"
        /\ SetWorld(resolved.w)
        /\ ret' = [op |-> "bust_get",
                   arg |-> [before |-> Self(get_settings(World)),
                            memo |-> plugins_cache # NoCache],
                   err |-> resolved.err,
                   val |-> [settings |-> Self(w), plugins |-> resolved.val]]
        /\ busted' = FALSE
        /\ joined' = Joined(TRUE)
        /\ UNCHANGED <<stack, pc, fault, set_order>>

----------------------------------------------------------------------------
(* A second instance, which the caller makes with Settings() and joins     *)
(* with the singleton by set().                                            *)

\* The second instance, as its methods see it.
OtherSelf ==
    [plugins |-> other.plugins, filters |-> other.filters,
     plugins_shared |-> alias.plugins, filters_shared |-> alias.filters]

\* other = Settings()
NewOther ==
    LET fresh == Settings_clear(set_order)
    IN  /\ pc = "run"
        /\ other = <<>>
        /\ other' = [plugins |-> fresh.plugins, filters |-> fresh.filters]
        /\ ret' = [op |-> "Settings", arg |-> <<>>, err |-> OK, val |-> "other"]
        /\ UNCHANGED <<settings_cached, plugins, filters, plugins_cache,
                       filters_cache, stack, pc, fault, set_order, held, busted,
                       alias, joined>>

\* A Settings method on the second instance: a mapping it shares with the
\* singleton changes for both, and the method's cache_clear() is the
\* module's.  ret.val holds the instance as it was when the call began.
OnOther(op, arg, r) ==
    /\ pc = "run"
    /\ other # <<>>
    /\ other' = [plugins |-> r.self.plugins, filters |-> r.self.filters]
    /\ alias' = [plugins |-> r.self.plugins_shared,
                 filters |-> r.self.filters_shared]
    /\ plugins' = IF r.self.plugins_shared THEN r.self.plugins ELSE plugins
    /\ filters' = IF r.self.filters_shared THEN r.self.filters ELSE filters
    /\ plugins_cache' = IF r.bust_plugins THEN NoCache ELSE plugins_cache
    /\ filters_cache' = IF r.bust_filters THEN NoCache ELSE filters_cache
    /\ ret' = [op |-> op, arg |-> arg, err |-> r.err, val |-> OtherSelf]
    /\ UNCHANGED <<settings_cached, stack, pc, fault, set_order, held, busted,
                   joined>>

OtherClear ==
    OnOther("other.clear", <<>>,
            Result(Settings_clear(set_order), OK, FALSE, FALSE))

OtherConfigurePlugins(configs) ==
    \E config \in configs :
        OnOther("other.configure_plugins", config,
                Settings_configure_plugins(OtherSelf, config))

OtherDisablePlugins(namelists) ==
    \E names \in namelists :
        OnOther("other.disable_plugins", names,
                Settings_disable_plugins(OtherSelf, names))

OtherConfigureFilters(configs) ==
    \E config \in configs :
        OnOther("other.configure_filters", config,
                Settings_configure_filters(set_order, OtherSelf, config))

OtherDisableFilters(pathlists) ==
    \E paths \in pathlists :
        OnOther("other.disable_filters", paths,
                Settings_disable_filters(OtherSelf, paths))

\* get_settings().set(other)
SetFromOther ==
    /\ other # <<>>
    /\ joined' = TRUE
    /\ LET w == get_settings(World)
           r == Settings_set(Self(w), other)
       IN  /\ pc = "run"
           /\ SetWorld(Apply(w, r))
           /\ ret' = [op |-> "set", arg |-> other, err |-> r.err, val |-> Self(w)]
    /\ UNCHANGED <<stack, pc, fault, set_order, busted>>

\* other.set(get_settings())
SetToOther ==
    /\ other # <<>>
    /\ joined' = TRUE
    /\ LET w == get_settings(World)
           r == Settings_set(OtherSelf, Self(w))
       IN  /\ pc = "run"
           /\ SetWorld([w EXCEPT !.ps = r.self.plugins_shared,
                                 !.fs = r.self.filters_shared])
           /\ ret' = [op |-> "other.set", arg |-> Self(w), err |-> r.err,
                      val |-> OtherSelf]
    /\ UNCHANGED <<stack, pc, fault, set_order, busted>>

----------------------------------------------------------------------------
(* transient_settings: a scope is open from the yield to the end of the    *)
(* finally clause.  stack holds each open scope's original_settings, and   *)
(* with it (for the claims) the singleton's mappings at entry.             *)

\* The config applied to the instance that is there, without cache_bust().
YieldedWithoutBust(w, config) ==
    configure_settings_from_baseline(w, config, "")

\* cache_bust() and then configure_settings_from_baseline(config), whose
\* value is yielded to the block.
Yielded(w, config) ==
    configure_settings_from_baseline(cache_bust(w), config, "")

\* with transient_settings(config): up to the yield.  A fault of
\* get_settings().json() is raised before the try; a fault of
\* configure_settings_from_baseline(config) is raised inside it.  ret.val
\* is the Settings the block is given.
EnterUpTo(configs, depth) ==
    \E config \in configs :
        LET snap == json(World)
            applied == Yielded(snap.w, config)
        IN  /\ pc = "run"
            /\ Len(stack) < depth
            /\ IF snap.err # OK
               THEN /\ SetWorld(snap.w)
                    /\ UNCHANGED <<stack, pc, fault, busted, joined>>
                    /\ ret' = Ret("enter", config, Out(snap.w, "raised", snap.err))
               ELSE /\ SetWorld(applied.w)
                    /\ busted' = Busted(TRUE)
                    /\ joined' = Joined(TRUE)
                    /\ stack' = Append(stack,
                                       [original_settings |-> snap.val,
                                        before |-> Self(get_settings(World))])
                    /\ pc' = IF applied.err # OK THEN "raised" ELSE "run"
                    /\ fault' = applied.err
                    /\ ret' = Ret("enter", config, applied)
            /\ UNCHANGED set_order

Enter(configs) == EnterUpTo(configs, MaxDepth)

\* The wrapped block raises.
BlockRaise(faults) ==
    \E f \in faults :
        /\ pc = "run"
        /\ stack # <<>>
        /\ pc' = "raised"
        /\ fault' = f
        /\ ret' = [op |-> "raise", arg |-> f, err |-> f, val |-> "raised"]
        /\ UNCHANGED <<settings_cached, plugins, filters, plugins_cache,
                       filters_cache, stack, set_order, held, busted, other, alias,
                       joined>>

\* The finally clause without its cache_bust(): the snapshot is applied to
\* the instance the block configured.
FinallyWithoutBust(w, scope, unwinding) ==
    LET restored == configure_settings_from_baseline(w, scope.original_settings, "")
    IN  Out(restored.w, "exit",
            IF restored.err # OK THEN restored.err ELSE unwinding)

\* The finally clause of the innermost scope, entered from the end of the
\* block (fault = OK) or by the fault that unwinds: cache_bust(), then
\* configure_settings_from_baseline(original_settings).  A fault of the
\* clause itself replaces the one that was unwinding.
Finally(w, scope, unwinding) ==
    LET restored == configure_settings_from_baseline(cache_bust(w),
                                                     scope.original_settings, "")
    IN  Out(restored.w, "exit",
            IF restored.err # OK THEN restored.err ELSE unwinding)

Exit ==
    LET scope == stack[Len(stack)]
        r == Finally(World, scope, fault)
    IN  /\ stack # <<>>
        /\ SetWorld(r.w)
        /\ stack' = SubSeq(stack, 1, Len(stack) - 1)
        /\ pc' = "run"
        /\ fault' = OK
        /\ ret' = [op |-> "exit", arg |-> scope.original_settings, err |-> r.err,
                   val |-> fault, before |-> scope.before]
        /\ busted' = Busted(TRUE)
        /\ joined' = Joined(TRUE)
        /\ UNCHANGED set_order

----------------------------------------------------------------------------
(* Inputs. *)

SeqsUpTo(S, n) == UNION {[1..k -> S] : k \in 0..n}

regex_filter == <<"detect_secrets.filters.regex", ".", "should_exclude_files">>

AWS == [name |-> "AWSKeyDetector"]
B64 == [name |-> "Base64HighEntropyString"]
B64at3 == [name |-> "Base64HighEntropyString", limit |-> "3"]
NoSuch == [name |-> "NoSuchPlugin"]
Nameless == [limit |-> "3"]

AWSCustom == [name |-> "AWSKeyDetector", path |-> "testing/plugins.py"]

Regex == [path |-> regex_filter, pattern |-> "^test.*"]
InvalidFileNoted == [path |-> is_invalid_file, note |-> "x"]
WordlistBare == [path |-> wordlist_filter]
Pathless == [pattern |-> "^test.*"]

Init ==
    /\ set_order \in {"fwd", "rev"}
    /\ settings_cached = FALSE
    /\ plugins = <<>>
    /\ filters = <<>>
    /\ plugins_cache = NoCache
    /\ filters_cache = NoCache
    /\ stack = <<>>
    /\ pc = "run"
    /\ fault = OK
    /\ ret = [op |-> "start", arg |-> <<>>, err |-> OK, val |-> "None"]
    /\ held = "none"
    /\ busted = FALSE
    /\ other = <<>>
    /\ alias = [plugins |-> FALSE, filters |-> FALSE]
    /\ joined = FALSE

----------------------------------------------------------------------------
(* Spec: the scope controller, with the store operations a caller runs     *)
(* before a scope and inside its block.                                    *)

ScopePluginConfigs == {<<B64>>, <<NoSuch>>}

ScopeFilterConfigs == {<<WordlistBare>>}

ScopeConfigs ==
    { EmptyDict,
      [plugins_used |-> <<AWS, Nameless>>],
      [filters_used |-> <<Regex>>] }

Next ==
    \/ Clear
    \/ ConfigurePlugins(ScopePluginConfigs)
    \/ ConfigureFilters(ScopeFilterConfigs)
    \/ DisableFilters({<<is_invalid_file>>})
    \/ GetPlugins
    \/ Enter(ScopeConfigs)
    \/ BlockRaise({"BlockFault"})
    \/ Exit

Spec == Init /\ [][Next]_vars

----------------------------------------------------------------------------
(* Claims about the scope controller, checked under Spec. *)

\* The singleton as get_settings() returns it in the current state.
Current == Self(get_settings(World))

\* C1: when the block wrapped by transient_settings(cfg) raised a fault (the
\* block's own, or one raised while cfg was applied), then once the scope
\* has exited get_settings().json() returns what it returned immediately
\* before entry.
C1_SerializationRestoredAfterFault ==
    (ret.op = "exit" /\ ret.val # OK) =>
        LET after == json(World)
        IN  after.err = OK /\ after.val = ret.arg

\* A scope whose block raised has exited, the settings before entry held a
\* configured plugin, and the block ran with other plugins than those.
C1_Witness ==
    /\ ret.op = "exit"
    /\ ret.val = "BlockFault"
    /\ ret.arg["plugins_used"] # <<>>
    /\ Keys(ret.before.plugins) # {}

\* C2: after a scope exits, the plugins mapping and the filters mapping of
\* get_settings() equal the mappings held immediately before entry.
C2_MappingsRestored ==
    ret.op = "exit" =>
        /\ DictEq(Current.plugins, ret.before.plugins)
        /\ DictEq(Current.filters, ret.before.filters)

\* C4: when the block raised, the fault that reaches the caller at the end
\* of the finally clause is the fault the block raised, and the settings are
\* restored (by serialization) when it reaches the caller.
C4_OriginalFaultAfterRestore ==
    (ret.op = "exit" /\ ret.val # OK) =>
        /\ ret.err = ret.val
        /\ json(World).val = ret.arg

----------------------------------------------------------------------------
(* SpecPlugins: the plugin side of the store, with the plugin memo. *)

StorePluginConfigs ==
    { <<AWS>>, <<B64at3>>, <<B64, AWS>>, <<B64at3, B64>>, <<NoSuch>>,
      <<AWS, Nameless>> }

NextPlugins ==
    \/ Clear
    \/ ConfigurePlugins(StorePluginConfigs)
    \/ DisablePlugins({<<"AWSKeyDetector">>, <<"Base64HighEntropyString", "NoSuchPlugin">>})
    \/ ConfigureFilters({<<Regex>>})
    \/ CacheBust
    \/ GetPlugins
    \/ Json
    \/ ClearThenJson

SpecPlugins == Init /\ [][NextPlugins]_vars

\* C3: the memoized results are never stale: a filled get_plugins slot holds
\* the plugins resolved from the current get_settings().plugins, and a
\* filled get_filters slot the filters resolved from the current
\* get_settings().filters.
C3_MemosNeverStale ==
    /\ plugins_cache # NoCache =>
          LET now == ResolvePlugins(Current.plugins, Current.plugins)
          IN  now.err = OK /\ plugins_cache[1] = now.list
    /\ filters_cache # NoCache =>
          LET now == FiltersLoad(Current.filters)
          IN  now.err = OK /\ filters_cache[1] = now.output

\* The nine filters of Settings.clear that are not default filters, as
\* json() lists them: sorted by lower-cased path.
ConstructionFiltersUsed ==
    << [path |-> is_line_allowlisted], [path |-> is_indirect_reference],
       [path |-> is_likely_id_string], [path |-> is_lock_file],
       [path |-> is_potential_uuid], [path |-> is_prefixed_with_dollar_sign],
       [path |-> is_sequential_string], [path |-> is_swagger_file],
       [path |-> is_templated_secret] >>

RECURSIVE LastParams(_, _)
LastParams(config, name) ==
    LET last == config[Len(config)]
    IN  IF last["name"] = name THEN Without(last, "name")
        ELSE LastParams(SubSeq(config, 1, Len(config) - 1), name)

ConfigNames(config) == {config[i]["name"] : i \in DOMAIN config}

\* C10: configure_plugins merges: a plugin that was present and is not named
\* in the input keeps its params, and every name of the input maps to the
\* params of its (last) entry, without the name key.
C10_ConfigurePluginsMerges ==
    (ret.op = "configure_plugins" /\ ret.err = OK) =>
        /\ \A name \in Keys(ret.val.plugins) \ ConfigNames(ret.arg) :
              /\ name \in Keys(plugins)
              /\ Get(plugins, name) = Get(ret.val.plugins, name)
        /\ \A name \in ConfigNames(ret.arg) :
              /\ name \in Keys(plugins)
              /\ Get(plugins, name) = LastParams(ret.arg, name)
        /\ Keys(plugins) = Keys(ret.val.plugins) \cup ConfigNames(ret.arg)

\* A call that overwrote one plugin's params and left another plugin alone.
C10_Witness ==
    /\ ret.op = "configure_plugins"
    /\ ret.err = OK
    /\ \E name \in Keys(ret.val.plugins) \ ConfigNames(ret.arg) : TRUE
    /\ \E name \in Keys(ret.val.plugins) \cap ConfigNames(ret.arg) :
          Get(ret.val.plugins, name) # Get(plugins, name)

----------------------------------------------------------------------------
(* SpecFilters: the filter side of the store, with the filter loader. *)

Nonexistent == [path |-> <<"nonexistent.module", ".", "fn">>]
NoSuchFunction == [path |-> <<"detect_secrets.filters.common", ".", "no_such_function">>]
CustomFile == [path |-> <<"file://", "testing/custom_filters.py", "::", "is_invalid_secret">>]
MissingFile == [path |-> <<"file://", "missing.py", "::", "fn">>]
FileNoFunction == [path |-> <<"file://", "testing/custom_filters.py">>]
OtherScheme == [path |-> <<"http://", "example.com/filter">>]
NoDots == [path |-> <<"nodots">>]

StoreFilterConfigs ==
    { <<>>, <<Regex>>, <<InvalidFileNoted, CustomFile>>, <<Nonexistent, Regex>>,
      <<NoSuchFunction>>, <<MissingFile, OtherScheme>>, <<FileNoFunction>>,
      <<NoDots>>, <<CustomFile, Pathless>> }

NextFilters ==
    \/ Clear
    \/ ConfigureFilters(StoreFilterConfigs)
    \/ DisableFilters({<<is_non_text_file>>, <<regex_filter, is_swagger_file>>})
    \/ Baseline({EmptyDict}, {".secrets.baseline"})
    \/ CacheBust
    \/ GetFilters
    \/ Json

SpecFilters == Init /\ [][NextFilters]_vars

\* What get_filters is said to return for a mapping: the identifiers that
\* resolve, in the mapping's order.
Resolvable(d) == SelectSeq([i \in DOMAIN d |-> d[i][1]],
                           LAMBDA path : ResolveFilter(path) = "ok")

Unresolvable(d) == SelectSeq([i \in DOMAIN d |-> d[i][1]],
                             LAMBDA path : ResolveFilter(path) # "ok")

\* C8: get_filters() never raises, whatever identifiers the settings hold:
\* it returns the resolvable identifiers of the mapping in insertion order,
\* and a call that resolves them warns about every other one.
C8_GetFiltersNeverRaises ==
    ret.op = "get_filters" =>
        /\ ret.err = OK
        /\ ret.val.output = Resolvable(filters)
        /\ ret.val.warned \in {<<>>, Unresolvable(filters)}

ConfigPaths(config) == {config[i]["path"] : i \in DOMAIN config}

\* The entries of a filters_used list before its first entry without a path.
RECURSIVE WithPath(_)
WithPath(config) ==
    IF config = <<>> \/ "path" \notin DOMAIN Head(config) THEN <<>>
    ELSE <<Head(config)>> \o WithPath(Tail(config))

\* C9: configure_filters replaces: after configure_filters(B) the filters
\* mapping holds exactly the default filters and the paths of B, whatever it
\* held before (the paths of an earlier configure_filters(A), a
\* baseline-file entry).  When B raises KeyError at an entry without a
\* path, the same holds for the entries before that one.
C9_ConfigureFiltersReplaces ==
    ret.op = "configure_filters" =>
        /\ Keys(filters) = DEFAULT_FILTERS \cup ConfigPaths(WithPath(ret.arg))
        /\ ret.err = OK <=> WithPath(ret.arg) = ret.arg

\* configure_filters(B) returned on settings that held the baseline-file
\* entry and a path of an earlier configure_filters, neither of them in B.
C9_Witness ==
    /\ ret.op = "configure_filters"
    /\ ret.err = OK
    /\ ret.arg # <<>>
    /\ is_baseline_file \in Keys(ret.val.filters)
    /\ \E path \in Keys(ret.val.filters) \ (DEFAULT_FILTERS \cup {is_baseline_file}) :
          path \notin ConfigPaths(ret.arg)
    /\ is_swagger_file \notin Keys(ret.val.filters)

----------------------------------------------------------------------------
(* SpecBaseline: sequences of configure_settings_from_baseline calls. *)

GibberishAt3 == [path |-> gibberish_filter, limit |-> "3"]

BaselineInputs ==
    { EmptyDict,
      [plugins_used |-> <<AWS>>],
      [plugins_used |-> <<B64at3, NoSuch>>],
      [plugins_used |-> <<AWS, Nameless>>, filters_used |-> <<Regex>>],
      [filters_used |-> <<>>],
      [filters_used |-> <<InvalidFileNoted, Regex>>],
      [filters_used |-> <<GibberishAt3, Pathless>>],
      [plugins_used |-> <<B64>>, filters_used |-> <<WordlistBare>>] }

NextBaseline ==
    \/ Baseline(BaselineInputs, {"", ".secrets.baseline"})
    \/ CacheBust
    \/ GetPlugins
    \/ GetFilters
    \/ Json

SpecBaseline == Init /\ [][NextBaseline]_vars

\* C6: whatever baselines were applied, every default filter is a key of
\* get_settings().filters, and json() lists no default filter in
\* filters_used.
C6_DefaultsKeptAndNotSerialized ==
    /\ DEFAULT_FILTERS \subseteq Keys(Current.filters)
    /\ LET j == json(World)
       IN  j.err = OK =>
              \A i \in DOMAIN j.val["filters_used"] :
                  j.val["filters_used"][i]["path"] \notin DEFAULT_FILTERS

\* json() returned on settings in which a baseline gave a default filter
\* params and a later call added the baseline-file entry.
C6_Witness ==
    /\ ret.op = "json"
    /\ ret.err = OK
    /\ Get(filters, is_invalid_file) # EmptyDict
    /\ is_baseline_file \in Keys(filters)
    /\ Len(ret.val["filters_used"]) = 2

----------------------------------------------------------------------------
(* SpecRoundTrip: baseline dict -> fresh settings -> json(). *)

RegexDocs == [path |-> regex_filter, pattern |-> "^docs.*"]

PluginEntries == {AWS, B64, B64at3, NoSuch, Nameless}

FilterEntries == {Regex, RegexDocs, InvalidFileNoted, WordlistBare, Pathless}

PluginConfigs == SeqsUpTo(PluginEntries, MaxLen)

FilterConfigs == SeqsUpTo(FilterEntries, MaxLen)

\* Baseline dicts: each of the two keys present or absent.
Baselines ==
    {EmptyDict}
    \cup {[plugins_used |-> c] : c \in PluginConfigs}
    \cup {[filters_used |-> c] : c \in FilterConfigs}
    \cup {[plugins_used |-> c, filters_used |-> d] :
            c \in PluginConfigs, d \in FilterConfigs}

NextRoundTrip == RoundTrip(Baselines)

SpecRoundTrip == Init /\ [][NextRoundTrip]_vars

ListOf(baseline, key) == IF key \in DOMAIN baseline THEN baseline[key] ELSE <<>>

HasKey(list, key) == \A i \in DOMAIN list : key \in DOMAIN list[i]

KeyValues(list, key) == {list[i][key] : i \in DOMAIN list}

\* Entry e of the baseline is reproduced by entry j of json(): every param
\* of e is in j with the same value (j may hold computed fields too).
Reproduces(j, e) == \A k \in DOMAIN e : k \in DOMAIN j /\ j[k] = e[k]

\* C7 as stated: for every baseline dict B, json() after
\* configure_settings_from_baseline(B) on fresh settings holds the plugin
\* names and filter paths of B and no others, each with the params B gives.
C7_RoundTrip ==
    ret.op = "round_trip" =>
        LET B == ret.arg
            pu == ListOf(B, "plugins_used")
            fu == ListOf(B, "filters_used")
        IN  /\ ret.err = OK
            /\ KeyValues(ret.val["plugins_used"], "name") = KeyValues(pu, "name")
            /\ KeyValues(ret.val["filters_used"], "path") = KeyValues(fu, "path")
            /\ \A i \in DOMAIN pu : \E n \in DOMAIN ret.val["plugins_used"] :
                  Reproduces(ret.val["plugins_used"][n], pu[i])
            /\ \A i \in DOMAIN fu : \E n \in DOMAIN ret.val["filters_used"] :
                  ret.val["filters_used"][n] = fu[i]

\* The last entry of list whose key field is v.
RECURSIVE LastEntry(_, _, _)
LastEntry(list, key, v) ==
    IF list[Len(list)][key] = v THEN list[Len(list)]
    ELSE LastEntry(SubSeq(list, 1, Len(list) - 1), key, v)

\* A baseline the procedure and json() accept: every entry has its name or
\* path, every name is a plugin class, and the wordlist and gibberish
\* entries have the params their initializers read.
Accepted(B) ==
    LET pu == ListOf(B, "plugins_used")
        fu == ListOf(B, "filters_used")
    IN  /\ HasKey(pu, "name") /\ HasKey(fu, "path")
        /\ KeyValues(pu, "name") \subseteq DOMAIN PluginRegistry
        /\ wordlist_filter \in KeyValues(fu, "path") =>
              {"file_name", "min_length", "file_hash"}
                  \subseteq DOMAIN LastEntry(fu, "path", wordlist_filter)
        /\ gibberish_filter \in KeyValues(fu, "path") =>
              "limit" \in DOMAIN LastEntry(fu, "path", gibberish_filter)

\* C7 as amended: a baseline that is not Accepted raises KeyError or
\* TypeError.  For an Accepted one, plugins_used holds one entry per plugin
\* name of B, reproducing the last entry of that name; filters_used holds,
\* when B has filters_used, one entry per path of B that is no default
\* filter, equal to the last entry of that path, and when B has none, the
\* nine construction-time filters that are no default filters.
C7_RoundTripAmended ==
    ret.op = "round_trip" =>
        LET B == ret.arg
            pu == ListOf(B, "plugins_used")
            fu == ListOf(B, "filters_used")
            jp == ret.val["plugins_used"]
            jf == ret.val["filters_used"]
        IN  IF ~ Accepted(B) THEN ret.err \in {"KeyError", "TypeError"}
            ELSE /\ ret.err = OK
                 /\ KeyValues(jp, "name") = KeyValues(pu, "name")
                 /\ Len(jp) = Cardinality(KeyValues(pu, "name"))
                 /\ \A n \in DOMAIN jp :
                       Reproduces(jp[n], LastEntry(pu, "name", jp[n]["name"]))
                 /\ IF "filters_used" \in DOMAIN B
                    THEN /\ KeyValues(jf, "path") = KeyValues(fu, "path") \ DEFAULT_FILTERS
                         /\ Len(jf) = Cardinality(KeyValues(jf, "path"))
                         /\ \A n \in DOMAIN jf :
                               jf[n] = LastEntry(fu, "path", jf[n]["path"])
                    ELSE jf = ConstructionFiltersUsed

\* A round trip of a baseline with two plugins and two filters, one of them
\* a default filter, which json() leaves out.
C7_Witness ==
    /\ ret.op = "round_trip"
    /\ ret.err = OK
    /\ Len(ListOf(ret.arg, "plugins_used")) = 2
    /\ Len(ret.val["plugins_used"]) = 2
    /\ Len(ListOf(ret.arg, "filters_used")) = 2
    /\ Len(ret.val["filters_used"]) = 1

----------------------------------------------------------------------------
(* SpecInstances: the singleton accessor and its invalidation, with a      *)
(* caller that keeps the instance get_settings() returned.                 *)

NextInstances ==
    \/ GetSettings
    \/ CacheBust
    \/ ConfigurePlugins({<<AWS>>})
    \/ GetPlugins
    \/ Enter({[plugins_used |-> <<B64>>]})
    \/ BlockRaise({"BlockFault"})
    \/ Exit

SpecInstances == Init /\ [][NextInstances]_vars

\* C11: one settings instance between two successive cache_bust() calls:
\* a get_settings() with no cache_bust() since the caller's last
\* get_settings() returns the instance that call returned, and creates
\* none; a get_settings() after a cache_bust() returns another instance than
\* the one held, and the get_settings() that follows a cache_bust() at once
\* creates the instance it returns.
C11_OneInstancePerEpoch ==
    ret.op = "get_settings" =>
        /\ (ret.arg.held # "none" /\ ~ ret.arg.busted) =>
              (ret.val.same /\ ~ ret.val.created)
        /\ (ret.arg.busted \/ ret.arg.last = "cache_bust") => ~ ret.val.same
        /\ ret.arg.last = "cache_bust" => ret.val.created

\* get_settings() returned a newly created instance, the instance the
\* caller held having been dropped by a cache_bust().
C11_Witness ==
    /\ ret.op = "get_settings"
    /\ ret.arg.held = "dropped"
    /\ ret.arg.busted
    /\ ret.val.created
    /\ ~ ret.val.same

----------------------------------------------------------------------------
(* SpecStore: the store's configure and disable operations on both         *)
(* mappings, with the two resolver memos.                                  *)

NextStore ==
    \/ Clear
    \/ ConfigurePlugins({<<AWS>>, <<B64at3, NoSuch>>})
    \/ DisablePlugins({<<"AWSKeyDetector">>, <<"NoSuchPlugin", "NoSuchPlugin">>,
                       <<"Base64HighEntropyString", "AWSKeyDetector">>})
    \/ ConfigureFilters({<<Regex>>, <<InvalidFileNoted>>})
    \/ DisableFilters({<<regex_filter>>, <<is_invalid_file, is_swagger_file>>,
                       <<is_lock_file, is_lock_file>>})
    \/ GetPlugins
    \/ GetFilters

SpecStore == Init /\ [][NextStore]_vars

\* The elements of a sequence.
Range(seq) == {seq[i] : i \in DOMAIN seq}

\* C12: disable_plugins and disable_filters never fail and are idempotent:
\* the call raises nothing; the same call made again would raise nothing and
\* leave both mappings as they are; and when none of its names was present,
\* the call left both mappings as they were.
C12_DisableIdempotent ==
    /\ ret.op = "disable_plugins" =>
          LET again == Settings_disable_plugins(Current, ret.arg)
          IN  /\ ret.err = OK
              /\ again.err = OK
              /\ again.self.plugins = plugins
              /\ again.self.filters = filters
              /\ Range(ret.arg) \cap Keys(ret.val.plugins) = {} =>
                    (plugins = ret.val.plugins /\ filters = ret.val.filters)
    /\ ret.op = "disable_filters" =>
          LET again == Settings_disable_filters(Current, ret.arg)
          IN  /\ ret.err = OK
              /\ again.err = OK
              /\ again.self.plugins = plugins
              /\ again.self.filters = filters
              /\ Range(ret.arg) \cap Keys(ret.val.filters) = {} =>
                    (plugins = ret.val.plugins /\ filters = ret.val.filters)

\* disable_plugins was called with a name the mapping held and a name it
\* did not hold, and removed the one it held.
C12_Witness ==
    /\ ret.op = "disable_plugins"
    /\ ret.err = OK
    /\ Range(ret.arg) \cap Keys(ret.val.plugins) # {}
    /\ Range(ret.arg) \ Keys(ret.val.plugins) # {}
    /\ Len(plugins) < Len(ret.val.plugins)

----------------------------------------------------------------------------
(* SpecSerialize: json() over plugins whose stored params and resolved     *)
(* plugin can differ: set() adopts another instance's params and leaves    *)
(* the get_plugins memo as it is.                                          *)

NextSerialize ==
    \/ NewOther
    \/ SetFromOther
    \/ ConfigurePlugins({<<B64>>, <<AWSCustom>>})
    \/ DisablePlugins({<<"AWSKeyDetector">>})
    \/ OtherConfigurePlugins({<<B64at3>>, <<B64at3, AWSCustom>>})
    \/ GetPlugins
    \/ Json

SpecSerialize == Init /\ [][NextSerialize]_vars

\* The resolved plugin of that name in a list of resolved plugins.
ResolvedNamed(resolved, name) ==
    resolved[CHOOSE i \in DOMAIN resolved : resolved[i]["name"] = name]

\* C13: when json() returns, plugins_used holds exactly one object per
\* resolved plugin (the list json() leaves in the get_plugins memo); the
\* object's keys are name, the keys of the stored params and the keys of the
\* plugin's live serialization; a key of the live serialization has the
\* live value, also when the stored params hold it too, and a key of the
\* stored params alone has the stored value.
C13_LiveSerializationWins ==
    (ret.op = "json" /\ ret.err = OK) =>
        LET resolved == plugins_cache[1]
            used == ret.val["plugins_used"]
        IN  /\ Len(used) = Len(resolved)
            /\ \A i \in DOMAIN resolved :
                  Cardinality({n \in DOMAIN used :
                                 used[n]["name"] = resolved[i]["name"]}) = 1
            /\ \A n \in DOMAIN used :
                  LET live == ResolvedNamed(resolved, used[n]["name"])
                      stored == Get(plugins, used[n]["name"])
                  IN  /\ DOMAIN used[n] = {"name"} \cup DOMAIN stored \cup DOMAIN live
                      /\ \A k \in DOMAIN live : used[n][k] = live[k]
                      /\ \A k \in DOMAIN stored \ DOMAIN live :
                            used[n][k] = stored[k]

\* json() returned two objects: one whose stored limit differs from the
\* resolved plugin's, and one with a key the live serialization lacks.
C13_Witness ==
    /\ ret.op = "json"
    /\ ret.err = OK
    /\ Len(ret.val["plugins_used"]) = 2
    /\ \E n \in DOMAIN plugins_cache[1] :
          LET live == plugins_cache[1][n]
              stored == Get(plugins, live["name"])
          IN  "limit" \in DOMAIN stored /\ stored["limit"] # live["limit"]
    /\ \E n \in DOMAIN ret.val["plugins_used"] :
          "path" \in DOMAIN ret.val["plugins_used"][n]

----------------------------------------------------------------------------
(* SpecPermute: a baseline and a rearrangement of its lists, applied from  *)
(* the same state.                                                         *)

RegexUpper ==
    [path |-> <<"detect_secrets.filters.REGEX", ".", "should_exclude_files">>]

PermutedPluginConfigs == SeqsUpTo({AWS, B64, B64at3, Nameless}, MaxPermuted)

PermutedFilterConfigs == SeqsUpTo({Regex, RegexUpper, GibberishAt3}, MaxPermuted)

PermutedBaselines ==
    {[plugins_used |-> c] : c \in PermutedPluginConfigs}
    \cup {[filters_used |-> d] : d \in PermutedFilterConfigs}
    \cup {[plugins_used |-> c, filters_used |-> <<Regex, GibberishAt3>>] :
            c \in PermutedPluginConfigs}

NextPermute ==
    \/ ConfigurePlugins({<<B64at3>>})
    \/ GetPlugins
    \/ PermutedTrip(PermutedBaselines)

SpecPermute == Init /\ [][NextPermute]_vars

\* list is in the order of its entries' lower-cased key field.
IsSortedBy(list, k) ==
    \A i, j \in DOMAIN list : i < j => KeyLeq(k, list[i][k], list[j][k])

\* C14 as stated: for any baseline dict, a rearrangement of its lists gives
\* the same json() output from the same state, and that output's lists are
\* sorted by lower-cased name and path.
C14_InputOrderInsignificant ==
    ret.op = "permuted_trip" =>
        /\ ret.val.first = ret.val.second
        /\ ret.val.first.json = OK =>
              /\ IsSortedBy(ret.val.first.output["plugins_used"], "name")
              /\ IsSortedBy(ret.val.first.output["filters_used"], "path")

\* No two entries of the list have the same key field, ignoring case.
DistinctIgnoringCase(list, k) ==
    \A i, j \in DOMAIN list :
        i # j => StrRank(k, list[i][k]) # StrRank(k, list[j][k])

\* C14 as amended: the same holds for every baseline dict whose entries all
\* carry their name / path and in which no two entries of a list have the
\* same name / path ignoring case; the two runs then also raise the same
\* faults.
C14_InputOrderInsignificantAmended ==
    ret.op = "permuted_trip" =>
        LET pu == ListOf(ret.arg, "plugins_used")
            fu == ListOf(ret.arg, "filters_used")
        IN  (/\ HasKey(pu, "name") /\ HasKey(fu, "path")
             /\ DistinctIgnoringCase(pu, "name")
             /\ DistinctIgnoringCase(fu, "path")) =>
                /\ ret.val.first = ret.val.second
                /\ ret.val.first.json = OK =>
                      /\ IsSortedBy(ret.val.first.output["plugins_used"], "name")
                      /\ IsSortedBy(ret.val.first.output["filters_used"], "path")

\* Two plugins and two filters were given in the other order, and json()
\* returned them in the same order both times.
C14_Witness ==
    /\ ret.op = "permuted_trip"
    /\ ret.val.first.json = OK
    /\ Len(ret.val.first.output["plugins_used"]) = 2
    /\ Len(ret.val.first.output["filters_used"]) = 2
    /\ ret.val.permuted["plugins_used"] # ret.arg["plugins_used"]
    /\ ret.val.permuted["filters_used"] # ret.arg["filters_used"]
    /\ ret.val.first = ret.val.second

----------------------------------------------------------------------------
(* SpecNested: transient_settings scopes opened inside the block of        *)
(* another, each left at the end of its block or by a fault.               *)

NestedConfigs ==
    { [plugins_used |-> <<AWS>>],
      [plugins_used |-> <<B64at3, Nameless>>, filters_used |-> <<Regex>>] }

NextNested ==
    \/ ConfigurePlugins({<<B64>>})
    \/ ConfigureFilters({<<WordlistBare>>})
    \/ EnterUpTo(NestedConfigs, MaxNest)
    \/ BlockRaise({"BlockFault"})
    \/ Exit

SpecNested == Init /\ [][NextNested]_vars

\* C16: at the exit of every scope, left normally or by a fault, with
\* other scopes still open around it or none, get_settings().json() returns
\* what it returned at that scope's entry.
C16_NestedScopesRestoreLifo ==
    ret.op = "exit" =>
        LET after == json(World)
        IN  /\ after.err = OK
            /\ after.val = ret.arg

\* An inner scope has exited by a fault while the outer scope is open: the
\* configuration in force is the outer scope's, which differs from the one
\* before the outer scope.
C16_Witness ==
    /\ ret.op = "exit"
    /\ ret.val # OK
    /\ Len(stack) = 1
    /\ stack[1].original_settings # ret.arg
    /\ ret.arg["plugins_used"] # <<>>
    /\ json(World).val = ret.arg

----------------------------------------------------------------------------
(* SpecScope: one transient_settings scope entered from settings that hold *)
(* configured plugins and filters.                                         *)

EnteredConfigs ==
    { EmptyDict,
      [plugins_used |-> <<AWS>>],
      [plugins_used |-> <<B64at3, AWS>>, filters_used |-> <<GibberishAt3, RegexDocs>>],
      [plugins_used |-> <<AWS, Nameless>>] }

NextScope ==
    \/ ConfigurePlugins({<<B64>>})
    \/ ConfigureFilters({<<Regex>>})
    \/ Enter(EnteredConfigs)
    \/ BlockRaise({"BlockFault"})
    \/ Exit

SpecScope == Init /\ [][NextScope]_vars

\* C17: when transient_settings(config) yields, the Settings it yields is
\* the instance get_settings() returns; its plugins mapping holds the
\* plugins named in config, with config's params, and no other; its filters
\* are those of a newly constructed Settings when config has no
\* filters_used, and else the default filters and config's filters.
C17_ScopeConfigIsFresh ==
    (ret.op = "enter" /\ ret.err = OK) =>
        LET pu == ListOf(ret.arg, "plugins_used")
            fu == ListOf(ret.arg, "filters_used")
        IN  /\ settings_cached
            /\ ret.val = Current
            /\ Keys(plugins) = KeyValues(pu, "name")
            /\ \A name \in Keys(plugins) :
                  Get(plugins, name) = LastParams(pu, name)
            /\ IF "filters_used" \in DOMAIN ret.arg
               THEN /\ Keys(filters) = DEFAULT_FILTERS \cup KeyValues(fu, "path")
                    /\ \A path \in KeyValues(fu, "path") :
                          Get(filters, path) = LastEntry(fu, "path", path)
                    /\ \A path \in DEFAULT_FILTERS \ KeyValues(fu, "path") :
                          Get(filters, path) = EmptyDict
               ELSE filters = Settings_clear(set_order).filters

\* A scope was entered with one plugin and no filters_used from settings
\* that held another plugin and a configured filter.
C17_Witness ==
    /\ ret.op = "enter"
    /\ ret.err = OK
    /\ Len(stack) = 1
    /\ Keys(stack[1].before.plugins) = {"Base64HighEntropyString"}
    /\ regex_filter \in Keys(stack[1].before.filters)
    /\ Keys(plugins) = {"AWSKeyDetector"}
    /\ "filters_used" \notin DOMAIN ret.arg

----------------------------------------------------------------------------
(* SpecAlias: the singleton and a second instance, joined by set(), with   *)
(* the store operations applied through either of them.                    *)

NextAlias ==
    \/ NewOther
    \/ SetFromOther
    \/ SetToOther
    \/ Clear
    \/ ConfigurePlugins({<<B64>>})
    \/ DisablePlugins({<<"Base64HighEntropyString">>})
    \/ ConfigureFilters({<<Regex>>})
    \/ DisableFilters({<<is_non_text_file>>})
    \/ OtherClear
    \/ OtherConfigurePlugins({<<B64at3>>})
    \/ OtherDisablePlugins({<<"Base64HighEntropyString">>})
    \/ OtherConfigureFilters({<<RegexDocs>>})
    \/ OtherDisableFilters({<<is_invalid_file>>})

SpecAlias == Init /\ [][NextAlias]_vars

\* C15 as stated: once a set() call has joined the two instances, their
\* plugins mappings are equal and their filters mappings are equal after
\* every later operation applied through either of them.
C15_AliasForever ==
    joined =>
        /\ DictEq(plugins, other.plugins)
        /\ DictEq(filters, other.filters)

\* The operations that bind a new dict object to the attribute of the
\* instance they are applied through.
RebindsPlugins == {"clear", "other.clear"}

RebindsFilters ==
    {"clear", "other.clear", "configure_filters", "other.configure_filters"}

\* The store operations, applied through the singleton or through the
\* second instance; ret.val holds the instance they were applied through
\* as it was before.
StoreOps ==
    {"clear", "configure_plugins", "disable_plugins", "configure_filters",
     "disable_filters"}

OtherStoreOps ==
    {"other.clear", "other.configure_plugins", "other.disable_plugins",
     "other.configure_filters", "other.disable_filters"}

\* C15 as amended: set() makes the receiver's two attributes the giver's
\* dict objects.  A mapping the two instances share stays shared, and equal,
\* across configure_plugins, disable_plugins and disable_filters through
\* either instance.  configure_filters gives the instance it is applied
\* through a new filters mapping and clear gives it new plugins and filters
\* mappings: the other instance's mapping stays as it was, and from then on
\* that mapping is not shared.
C15_AliasUntilRebound ==
    /\ ret.op \in {"set", "other.set"} =>
          /\ alias = [plugins |-> TRUE, filters |-> TRUE]
          /\ plugins = other.plugins /\ filters = other.filters
    /\ (ret.op \in (StoreOps \cup OtherStoreOps) \ RebindsPlugins
            /\ ret.val.plugins_shared) =>
          (alias.plugins /\ plugins = other.plugins)
    /\ (ret.op \in (StoreOps \cup OtherStoreOps) \ RebindsFilters
            /\ ret.val.filters_shared) =>
          (alias.filters /\ filters = other.filters)
    /\ (ret.op \in StoreOps \cap RebindsPlugins /\ ret.val.plugins_shared) =>
          (~ alias.plugins /\ other.plugins = ret.val.plugins)
    /\ (ret.op \in StoreOps \cap RebindsFilters /\ ret.val.filters_shared) =>
          (~ alias.filters /\ other.filters = ret.val.filters)
    /\ (ret.op \in OtherStoreOps \cap RebindsPlugins /\ ret.val.plugins_shared) =>
          (~ alias.plugins /\ plugins = ret.val.plugins)
    /\ (ret.op \in OtherStoreOps \cap RebindsFilters /\ ret.val.filters_shared) =>
          (~ alias.filters /\ filters = ret.val.filters)

\* After set(), configure_plugins through the second instance changed the
\* plugins of both, while their filters, which configure_filters had
\* rebound, differ.
C15_Witness ==
    /\ joined
    /\ ret.op = "other.configure_plugins"
    /\ alias.plugins
    /\ plugins = other.plugins
    /\ plugins # ret.val.plugins
    /\ ~ alias.filters
    /\ ~ DictEq(filters, other.filters)

----------------------------------------------------------------------------
(* The filename argument of configure_settings_from_baseline, checked in   *)
(* SpecBaseline.                                                           *)

\* C18: when configure_settings_from_baseline(B, filename) returns, the
\* filename not being empty, the filters hold the baseline-file identifier
\* with that filename.  When B has no filters_used, this is the one entry
\* that was merged in: every other filter entry is as it was before the
\* call.  When B has filters_used, the filters are the default filters, B's
\* filters and the baseline-file entry.  When B has no plugins_used, the
\* plugins mapping is as it was.
C18_FilenameMergesOneEntry ==
    (/\ ret.op = "configure_settings_from_baseline"
     /\ ret.err = OK
     /\ ret.arg.filename # "") =>
        LET B == ret.arg.baseline
            before == ret.arg.before
        IN  /\ is_baseline_file \in Keys(filters)
            /\ Get(filters, is_baseline_file) = [filename |-> ret.arg.filename]
            /\ "filters_used" \notin DOMAIN B =>
                  /\ Keys(filters) = Keys(before.filters) \cup {is_baseline_file}
                  /\ \A path \in Keys(before.filters) \ {is_baseline_file} :
                        Get(filters, path) = Get(before.filters, path)
            /\ "filters_used" \in DOMAIN B =>
                  Keys(filters) = DEFAULT_FILTERS \cup {is_baseline_file}
                                     \cup KeyValues(B["filters_used"], "path")
            /\ "plugins_used" \notin DOMAIN B => plugins = before.plugins

\* The procedure returned with a filename and no filters_used on settings
\* that held a configured filter and no baseline-file entry: one entry more.
C18_Witness ==
    /\ ret.op = "configure_settings_from_baseline"
    /\ ret.err = OK
    /\ ret.arg.filename # ""
    /\ "filters_used" \notin DOMAIN ret.arg.baseline
    /\ regex_filter \in Keys(ret.arg.before.filters)
    /\ is_baseline_file \notin Keys(ret.arg.before.filters)
    /\ Len(filters) = Len(ret.arg.before.filters) + 1

----------------------------------------------------------------------------
(* SpecMemo: the plugins are configured, disabled and cleared, the caches  *)
(* are busted, and the plugins are resolved, once or repeatedly.           *)

NextMemo ==
    \/ Clear
    \/ ConfigurePlugins({<<AWS>>, <<B64at3, AWS>>, <<NoSuch>>})
    \/ DisablePlugins({<<"AWSKeyDetector">>})
    \/ CacheBust
    \/ GetPlugins
    \/ ResolveRepeatedly

SpecMemo == Init /\ [][NextMemo]_vars

\* The keys of a mapping, in its iteration order.
KeyList(d) == [i \in DOMAIN d |-> d[i][1]]

\* C19: get_plugins(), json() and get_plugins() run with nothing in between
\* and neither get_plugins() raises.  The two calls return the same list,
\* the list holds one resolved plugin per name of get_settings().plugins, in
\* the mapping's order, json() does not raise, and the factory was called
\* once per name in that order, or not at all when the slot of get_plugins
\* was already filled.
C19_ResolvedOncePerName ==
    (ret.op = "resolve_repeatedly" /\ ret.err = OK) =>
        /\ ret.val.second = ret.val.first
        /\ KeyList(plugins) = [i \in DOMAIN ret.val.first |-> ret.val.first[i]["name"]]
        /\ ret.val.json = OK
        /\ ret.val.calls = IF ret.arg.memo THEN <<>> ELSE KeyList(plugins)

----------------------------------------------------------------------------
(* SpecBust: the singleton is configured, its plugins are resolved, and    *)
(* the caches are busted.                                                  *)

NextBust ==
    \/ ConfigurePlugins({<<AWS>>, <<B64at3, AWS>>})
    \/ DisablePlugins({<<"AWSKeyDetector">>})
    \/ ConfigureFilters({<<Regex>>, <<GibberishAt3, RegexDocs>>})
    \/ DisableFilters({<<is_invalid_file>>})
    \/ Baseline({[plugins_used |-> <<B64>>]}, {".secrets.baseline"})
    \/ GetPlugins
    \/ BustThenGet

SpecBust == Init /\ [][NextBust]_vars

\* C20: the first get_settings() after cache_bust() returns an instance with
\* no plugin and with the construction-time filters, each with no
\* parameters; get_plugins() called next returns the empty list; and these
\* are the singleton's mappings from then on.
C20_CacheBustDiscardsConfiguration ==
    ret.op = "bust_get" =>
        /\ ret.err = OK
        /\ ret.val.settings.plugins = <<>>
        /\ Keys(ret.val.settings.filters) =
              {CLEAR_FILTERS_LIST[i] : i \in DOMAIN CLEAR_FILTERS_LIST}
        /\ Len(ret.val.settings.filters) = 11
        /\ \A path \in Keys(ret.val.settings.filters) :
              Get(ret.val.settings.filters, path) = EmptyDict
        /\ ret.val.plugins = <<>>
        /\ plugins = ret.val.settings.plugins
        /\ filters = ret.val.settings.filters
        /\ plugins_cache = Cached(<<>>)

\* cache_bust() ran on a singleton that held configured plugins, resolved
\* and memoized, a configured filter and the baseline-file entry, and had
\* lost a construction-time filter.
C20_Witness ==
    /\ ret.op = "bust_get"
    /\ ret.arg.memo
    /\ Len(ret.arg.before.plugins) = 2
    /\ regex_filter \in Keys(ret.arg.before.filters)
    /\ is_baseline_file \in Keys(ret.arg.before.filters)
    /\ is_invalid_file \notin Keys(ret.arg.before.filters)

====
